---- MODULE Spec2Model ----
(***************************************************************************)
(* Model of generate_slideshow.py: the catalog builder (scan_slides, main) *)
(* and the browser-side SlideShowPlayer that generate_html emits.          *)
(*                                                                         *)
(* A file name is a record [base, ext]: base is the sequence of characters *)
(* before the last dot, ext the characters after it.  A directory entry    *)
(* adds isFile (FALSE for a sub-directory).                                *)
(***************************************************************************)
EXTENDS Integers, Sequences, FiniteSets, TLC

\* Largest number of entries in the scanned directory.
MaxFiles == 4

\* Largest horizontal touch coordinate, in pixels.
MaxX == 101

----------------------------------------------------------------------------
\* Characters and the two conversions between digit strings and numbers.

DigitChars == <<"0", "1", "2", "3", "4", "5", "6", "7", "8", "9">>

IsDigit(c) == \E k \in 1..10 : DigitChars[k] = c

DigitVal(c) == (CHOOSE k \in 1..10 : DigitChars[k] = c) - 1

\* \d+ : one or more decimal digits
IsDigits(b) == Len(b) > 0 /\ \A k \in 1..Len(b) : IsDigit(b[k])

\* Python int(str) on a digit string: leading zeros do not count.
RECURSIVE ParseInt(_)
ParseInt(b) ==
    IF Len(b) = 0 THEN 0
    ELSE 10 * ParseInt(SubSeq(b, 1, Len(b) - 1)) + DigitVal(b[Len(b)])

\* JavaScript (n).toString() for n >= 0: decimal, no leading zeros.
RECURSIVE toString(_)
toString(n) ==
    IF n < 10 THEN <<DigitChars[n + 1]>>
    ELSE Append(toString(n \div 10), DigitChars[(n % 10) + 1])

----------------------------------------------------------------------------
\* The directory entries the model draws from.  The single character "cover"
\* stands for the two characters of the cover video's base name.

Name(b, e) == [base |-> b, ext |-> e]

CoverName == Name(<<"cover">>, "mp4")

FileEntry(b, e) == [name |-> Name(b, e), isFile |-> TRUE]

DirEntry(b, e) == [name |-> Name(b, e), isFile |-> FALSE]

Universe ==
    { FileEntry(<<"1">>, "png"), FileEntry(<<"2">>, "png"),
      FileEntry(<<"3">>, "png"), FileEntry(<<"0", "1">>, "png"),
      FileEntry(<<"1", "0">>, "png"), DirEntry(<<"4">>, "png"),
      FileEntry(<<"cover">>, "mp4"), FileEntry(<<"1">>, "mp4"),
      FileEntry(<<"2">>, "mp4"), FileEntry(<<"3">>, "mp4"),
      FileEntry(<<"1", "-", "2">>, "mp4"), FileEntry(<<"2">>, "MP4"),
      FileEntry(<<"notes">>, "txt") }

Directories == { d \in SUBSET Universe : Cardinality(d) <= MaxFiles }

\* The orders in which iterdir() may yield the entries of d.
RECURSIVE Orders(_)
Orders(d) ==
    IF d = {} THEN { <<>> }
    ELSE UNION { { <<f>> \o o : o \in Orders(d \ {f}) } : f \in d }

----------------------------------------------------------------------------
\* scan_slides

\* png_pattern = ^(\d+)\.png$
png_pattern(n) == n.ext = "png" /\ IsDigits(n.base)

\* mp4_pattern = ^(\d+)\.mp4$
mp4_pattern(n) == n.ext = "mp4" /\ IsDigits(n.base)

\* position of the '-' in a base of the form digits '-' digits, 0 if none
DashAt(b) ==
    LET ks == { k \in 2..(Len(b) - 1) :
                  /\ b[k] = "-"
                  /\ IsDigits(SubSeq(b, 1, k - 1))
                  /\ IsDigits(SubSeq(b, k + 1, Len(b))) }
    IN IF ks = {} THEN 0 ELSE CHOOSE k \in ks : TRUE

\* transition_pattern = ^(\d+)-(\d+)\.mp4$
transition_pattern(n) == n.ext = "mp4" /\ DashAt(n.base) > 0

\* f.suffix.lower() == '.mp4'
SuffixIsMp4(n) == n.ext \in {"mp4", "MP4", "Mp4", "mP4"}

\* the first loop: one slide record per regular file matching png_pattern,
\* in iteration order
RECURSIVE CollectSlides(_)
CollectSlides(order) ==
    IF order = <<>> THEN <<>>
    ELSE LET f == Head(order)
             rest == CollectSlides(Tail(order))
         IN IF f.isFile /\ png_pattern(f.name)
            THEN <<[num |-> ParseInt(f.name.base), filename |-> f.name,
                    path |-> f.name]>> \o rest
            ELSE rest

\* insert x after every element whose key is <= x's key (keeps ties in order)
RECURSIVE InsertByNum(_, _)
InsertByNum(sorted, x) ==
    IF sorted = <<>> THEN <<x>>
    ELSE IF Head(sorted).num <= x.num
         THEN <<Head(sorted)>> \o InsertByNum(Tail(sorted), x)
         ELSE <<x>> \o sorted

\* a <= b as strings of digits, character by character
RECURSIVE LexLeq(_, _)
LexLeq(a, b) ==
    IF a = <<>> THEN TRUE
    ELSE IF b = <<>> THEN FALSE
    ELSE IF a[1] = b[1] THEN LexLeq(Tail(a), Tail(b))
    ELSE DigitVal(a[1]) < DigitVal(b[1])

RECURSIVE InsertByName(_, _)
InsertByName(sorted, x) ==
    IF sorted = <<>> THEN <<x>>
    ELSE IF LexLeq(Head(sorted).filename.base, x.filename.base)
         THEN <<Head(sorted)>> \o InsertByName(Tail(sorted), x)
         ELSE <<x>> \o sorted

RECURSIVE SortByName(_)
SortByName(s) ==
    IF s = <<>> THEN <<>>
    ELSE InsertByName(SortByName(SubSeq(s, 1, Len(s) - 1)), s[Len(s)])

\* the sort comparing file names as strings instead of numbers
SortByNum_byName(s) == SortByName(s)

\* slides.sort(key=lambda x: x['num']): a stable sort by num
RECURSIVE SortByNum(_)
SortByNum(s) ==
    IF s = <<>> THEN <<>>
    ELSE InsertByNum(SortByNum(SubSeq(s, 1, Len(s) - 1)), s[Len(s)])

\* videos[key] = value
DictSet(d, key, value) == (key :> value) @@ d

\* cover_video.exists(): any entry of that name, file or not
CoverVideos(d) ==
    IF \E f \in d : f.name = CoverName
    THEN DictSet(<<>>, <<"1">>, CoverName)
    ELSE <<>>

\* the second loop keeping the first video found for a key
ScanVideoEntry_keepFirst(videos, f) ==
    IF ~(f.isFile /\ SuffixIsMp4(f.name)) THEN videos
    ELSE IF f.name.base \in DOMAIN videos THEN videos
    ELSE IF mp4_pattern(f.name) \/ transition_pattern(f.name)
         THEN DictSet(videos, f.name.base, f.name)
         ELSE videos

\* one iteration of the second loop
ScanVideoEntry(videos, f) ==
    IF ~(f.isFile /\ SuffixIsMp4(f.name)) THEN videos
    ELSE LET v1 == IF mp4_pattern(f.name)
                   THEN DictSet(videos, f.name.base, f.name)
                   ELSE videos
         IN IF transition_pattern(f.name)
            THEN DictSet(v1, f.name.base, f.name)
            ELSE v1

RECURSIVE ScanVideos(_, _)
ScanVideos(videos, order) ==
    IF order = <<>> THEN videos
    ELSE ScanVideos(ScanVideoEntry(videos, Head(order)), Tail(order))

\* the slides list after the first iterdir() pass and the sort
SlidesPass(d) == { SortByNum(CollectSlides(order)) : order \in Orders(d) }

\* the videos dict after the cover check and the second iterdir() pass
VideosPass(d) == { ScanVideos(CoverVideos(d), order) : order \in Orders(d) }

\* scan_slides(directory): the values it may return, each iterdir() pass
\* yielding the entries in some order
scan_slides(d) ==
    { [slides |-> slides, videos |-> videos, total |-> Len(slides)] :
        slides \in SlidesPass(d), videos \in VideosPass(d) }

----------------------------------------------------------------------------
\* State.

VARIABLES
    pc,           \* "start": before main(); "exit": main() returned;
                  \* "page": the document is open and the player constructed
    dirExists,    \* os.path.exists(directory)
    files,        \* the entries of the directory
    rc,           \* main()'s return value (-1 before it returns)
    scanCalled,   \* main() called scan_slides
    htmlWritten,  \* generate_html wrote the output document
    slidesData,   \* const slidesData: the slide paths, in order
    videosData,   \* const videosData: key -> video file name
    p,            \* the SlideShowPlayer, its DOM elements and the media
                  \* element's state
    touchStartX   \* bindEvents' touchStartX: where the last touch began

vars == <<pc, dirExists, files, rc, scanCalled, htmlWritten, slidesData,
          videosData, p, touchStartX>>

NoVideo == Name(<<>>, "")

\* the document as served: no player object yet, markup as written
NoPlayer ==
    [currentSlide |-> 0, isVideoPlaying |-> FALSE, showThumbnails |-> FALSE,
     imgActive |-> {}, videoActive |-> FALSE, videoSrc |-> NoVideo,
     videoLoop |-> FALSE, videoPaused |-> TRUE, videoNet |-> "empty",
     endedQueued |-> FALSE, loadingActive |-> FALSE,
     currentText |-> 1, progressNum |-> 0, progressDen |-> 1,
     prevDisabled |-> FALSE, nextDisabled |-> FALSE, thumbActive |-> {},
     thumbsVisible |-> FALSE, fullscreen |-> FALSE]

NumSlides == Len(slidesData)

----------------------------------------------------------------------------
\* HTMLMediaElement: what the calls made on this.videoElement do.

\* videoElement.pause()
VideoPause(s) == [s EXCEPT !.videoPaused = TRUE]

\* videoElement.play()
VideoPlay(s) == [s EXCEPT !.videoPaused = FALSE]

\* videoElement.src = path: the load algorithm restarts; the element's
\* queued events are dropped and it is paused until play() is called
VideoSetSrc(s, path) ==
    [s EXCEPT !.videoSrc = path, !.videoNet = "loading",
              !.videoPaused = TRUE, !.endedQueued = FALSE]

----------------------------------------------------------------------------
\* SlideShowPlayer methods, each a function of the player state.

\* updateUI computing the progress from the 0-based index
updateUI_zeroBased(s) ==
    [s EXCEPT !.currentText = s.currentSlide + 1,
              !.progressNum = s.currentSlide * 100,
              !.progressDen = NumSlides,
              !.prevDisabled = (s.currentSlide = 0),
              !.nextDisabled = (s.currentSlide = NumSlides - 1),
              !.thumbActive = { i \in 0..(NumSlides - 1) : i = s.currentSlide }]

updateUI(s) ==
    [s EXCEPT !.currentText = s.currentSlide + 1,
              !.progressNum = (s.currentSlide + 1) * 100,
              !.progressDen = NumSlides,
              !.prevDisabled = (s.currentSlide = 0),
              !.nextDisabled = (s.currentSlide = NumSlides - 1),
              !.thumbActive = { i \in 0..(NumSlides - 1) : i = s.currentSlide }]

\* showSlide without its range check
showSlide_unchecked(s, index) ==
    updateUI(VideoPause(
      [s EXCEPT !.currentSlide = index,
                !.isVideoPlaying = FALSE,
                !.imgActive = {index},
                !.videoActive = FALSE]))

showSlide(s, index) ==
    IF index < 0 \/ index >= NumSlides THEN s
    ELSE updateUI(VideoPause(
           [s EXCEPT !.currentSlide = index,
                     !.isVideoPlaying = FALSE,
                     !.imgActive = {index},
                     !.videoActive = FALSE]))

\* this.videos[slideNum] is truthy: the key is present (every value is a
\* non-empty file name)
HasVideo(slideNum) == slideNum \in DOMAIN videosData

\* playVideo looping the second slide's video instead of the first's
playVideo_loopSecond(s, videoPath) ==
    LET s1 == [s EXCEPT !.loadingActive = TRUE,
                        !.imgActive = @ \ {s.currentSlide}]
        s2 == VideoSetSrc(s1, videoPath)
    IN [s2 EXCEPT !.videoActive = TRUE,
                  !.videoLoop = (s.currentSlide = 1)]

playVideo(s, videoPath) ==
    LET s1 == [s EXCEPT !.loadingActive = TRUE,
                        !.imgActive = @ \ {s.currentSlide}]
        s2 == VideoSetSrc(s1, videoPath)
    IN [s2 EXCEPT !.videoActive = TRUE,
                  !.videoLoop = (s.currentSlide = 0)]

\* videoElement.onloadeddata, as set by playVideo
onloadeddata(s) ==
    [VideoPlay([s EXCEPT !.loadingActive = FALSE])
        EXCEPT !.isVideoPlaying = TRUE]

\* onerror that only clears the loading indicator
onerror_keepVideo(s) == [s EXCEPT !.loadingActive = FALSE]

\* onerror moving on to the next slide
onerror_advance(s) ==
    showSlide([s EXCEPT !.loadingActive = FALSE], s.currentSlide + 1)

\* videoElement.onerror, as set by playVideo
onerror(s) == showSlide([s EXCEPT !.loadingActive = FALSE], s.currentSlide)

\* toggleVideo that can only resume
toggleVideo_playOnly(s) == VideoPlay(s)

toggleVideo(s) == IF s.videoPaused THEN VideoPlay(s) ELSE VideoPause(s)

\* onVideoEnded advancing to the next slide
onVideoEnded_advance(s) ==
    showSlide([s EXCEPT !.isVideoPlaying = FALSE], s.currentSlide + 1)

onVideoEnded(s) ==
    showSlide([s EXCEPT !.isVideoPlaying = FALSE], s.currentSlide)

\* the common prefix of nextSlide, previousSlide and goToSlide
SkipVideo(s) ==
    IF s.isVideoPlaying
    THEN [VideoPause(s) EXCEPT !.isVideoPlaying = FALSE]
    ELSE s

\* nextSlide that only skips the video when one is playing
nextSlide_skipOnly(s) ==
    IF s.isVideoPlaying THEN SkipVideo(s)
    ELSE IF s.currentSlide < NumSlides - 1
         THEN showSlide(s, s.currentSlide + 1)
         ELSE s

nextSlide(s) ==
    LET s1 == SkipVideo(s)
    IN IF s1.currentSlide < NumSlides - 1
       THEN showSlide(s1, s1.currentSlide + 1)
       ELSE s1

previousSlide(s) ==
    LET s1 == SkipVideo(s)
    IN IF s1.currentSlide > 0
       THEN showSlide(s1, s1.currentSlide - 1)
       ELSE s1

\* goToSlide doing nothing when asked for the current slide
goToSlide_ignoreCurrent(s, index) ==
    IF index = s.currentSlide THEN s ELSE showSlide(SkipVideo(s), index)

goToSlide(s, index) == showSlide(SkipVideo(s), index)

\* onSlideClick looking the video up under the 0-based index
onSlideClick_zeroBased(s) ==
    LET slideNum == toString(s.currentSlide)
    IN IF s.isVideoPlaying THEN toggleVideo(s)
       ELSE IF HasVideo(slideNum) THEN playVideo(s, videosData[slideNum])
       ELSE nextSlide(s)

\* onSlideClick playing the transition video "n-(n+1)" when there is one
onSlideClickWith_transition(s, videos) ==
    LET slideNum == toString(s.currentSlide + 1)
        trans == slideNum \o <<"-">> \o toString(s.currentSlide + 2)
    IN IF s.isVideoPlaying THEN toggleVideo(s)
       ELSE IF trans \in DOMAIN videos THEN playVideo(s, videos[trans])
       ELSE IF slideNum \in DOMAIN videos THEN playVideo(s, videos[slideNum])
       ELSE nextSlide(s)

\* onSlideClick, reading this.videos = videos
onSlideClickWith(s, videos) ==
    LET slideNum == toString(s.currentSlide + 1)
    IN IF s.isVideoPlaying THEN toggleVideo(s)
       ELSE IF slideNum \in DOMAIN videos THEN playVideo(s, videos[slideNum])
       ELSE nextSlide(s)

\* this.videos is videosData (constructor)
onSlideClick(s) == onSlideClickWith(s, videosData)

toggleFullscreen(s) == [s EXCEPT !.fullscreen = ~@]

toggleThumbnails(s) ==
    [s EXCEPT !.showThumbnails = ~@, !.thumbsVisible = ~s.showThumbnails]

Keys == {"ArrowLeft", "ArrowUp", "PageUp", "ArrowRight", "ArrowDown",
         "PageDown", " ", "Home", "End", "f", "F", "t", "T", "Escape", "a"}

\* the keydown listener with Escape toggling the thumbnail strip
onKeyDown_escapeToggles(s, key) ==
    CASE key \in {"ArrowLeft", "ArrowUp", "PageUp"} -> previousSlide(s)
      [] key \in {"ArrowRight", "ArrowDown", "PageDown"} -> nextSlide(s)
      [] key = " " -> onSlideClick(s)
      [] key = "Home" -> goToSlide(s, 0)
      [] key = "End" -> goToSlide(s, NumSlides - 1)
      [] key \in {"f", "F"} -> toggleFullscreen(s)
      [] key \in {"t", "T"} -> toggleThumbnails(s)
      [] key = "Escape" -> toggleThumbnails(s)
      [] OTHER -> s

\* the keydown listener of bindEvents
onKeyDown(s, key) ==
    CASE key \in {"ArrowLeft", "ArrowUp", "PageUp"} -> previousSlide(s)
      [] key \in {"ArrowRight", "ArrowDown", "PageDown"} -> nextSlide(s)
      [] key = " " -> onSlideClick(s)
      [] key = "Home" -> goToSlide(s, 0)
      [] key = "End" -> goToSlide(s, NumSlides - 1)
      [] key \in {"f", "F"} -> toggleFullscreen(s)
      [] key \in {"t", "T"} -> toggleThumbnails(s)
      [] key = "Escape" -> IF s.showThumbnails THEN toggleThumbnails(s) ELSE s
      [] OTHER -> s

\* Math.abs(diff) > 50
SwipeThreshold == 50

\* the touchend listener with the threshold itself counting as a swipe
onTouchEnd_atThreshold(s, startX, endX) ==
    LET diff == startX - endX
        abs == IF diff < 0 THEN -diff ELSE diff
    IN IF abs >= SwipeThreshold
       THEN IF diff > 0 THEN nextSlide(s) ELSE previousSlide(s)
       ELSE s

\* the touchend listener of bindEvents, the touch having begun at startX and
\* ending at endX
onTouchEnd(s, startX, endX) ==
    LET diff == startX - endX
        abs == IF diff < 0 THEN -diff ELSE diff
    IN IF abs > SwipeThreshold
       THEN IF diff > 0 THEN nextSlide(s) ELSE previousSlide(s)
       ELSE s

\* the horizontal coordinates at which a touch begins or ends
TouchXs == {0, SwipeThreshold, MaxX}

\* constructor() and init(): the elements are created hidden, then
\* showSlide(0)
NewPlayer == showSlide(NoPlayer, 0)

----------------------------------------------------------------------------
\* Actions.

Init ==
    /\ pc = "start"
    /\ dirExists \in BOOLEAN
    /\ files \in Directories
    /\ dirExists = FALSE => files = {}
    /\ rc = -1
    /\ scanCalled = FALSE
    /\ htmlWritten = FALSE
    /\ slidesData = <<>>
    /\ videosData = <<>>
    /\ p = NoPlayer
    /\ touchStartX = 0

\* the slide paths generate_html embeds: [s['path'] for s in data['slides']]
SlidePaths(slides) == [k \in 1..Len(slides) |-> slides[k].path]

\* main() writing the document whatever the scan found
Main_noEmptyCheck ==
    /\ pc = "start"
    /\ pc' = "exit"
    /\ UNCHANGED <<dirExists, files, p, touchStartX>>
    /\ IF ~dirExists
       THEN /\ rc' = 1
            /\ UNCHANGED <<scanCalled, htmlWritten, slidesData, videosData>>
       ELSE \E data \in scan_slides(files) :
              /\ scanCalled' = TRUE
              /\ rc' = 0
              /\ htmlWritten' = TRUE
              /\ slidesData' = SlidePaths(data.slides)
              /\ videosData' = data.videos

\* main(): check the directory, scan it, write the document
Main ==
    /\ pc = "start"
    /\ pc' = "exit"
    /\ UNCHANGED <<dirExists, files, p, touchStartX>>
    /\ IF ~dirExists
       THEN /\ rc' = 1
            /\ UNCHANGED <<scanCalled, htmlWritten, slidesData, videosData>>
       ELSE \E data \in scan_slides(files) :
              /\ scanCalled' = TRUE
              /\ IF data.slides = <<>>
                 THEN /\ rc' = 1
                      /\ UNCHANGED <<htmlWritten, slidesData, videosData>>
                 ELSE /\ rc' = 0
                      /\ htmlWritten' = TRUE
                      /\ slidesData' = SlidePaths(data.slides)
                      /\ videosData' = data.videos

Catalog ==
    <<dirExists, files, rc, scanCalled, htmlWritten, slidesData, videosData>>

\* the document is opened: DOMContentLoaded constructs the player
LoadPage ==
    /\ pc = "exit"
    /\ htmlWritten
    /\ pc' = "page"
    /\ p' = NewPlayer
    /\ UNCHANGED <<Catalog, touchStartX>>

\* an event handler runs to completion and leaves the player in state s
Event(s) ==
    /\ pc = "page"
    /\ p' = s
    /\ UNCHANGED <<pc, Catalog, touchStartX>>

KeyDown == \E key \in Keys : Event(onKeyDown(p, key))

\* a click on the visible slide image
ImageClick == p.imgActive # {} /\ Event(onSlideClick(p))

\* a click on the visible video element
VideoClick == p.videoActive /\ Event(toggleVideo(p))

\* clicks on the navigation buttons (a disabled button gets no click)
PrevBtnClick == ~p.prevDisabled /\ Event(previousSlide(p))

NextBtnClick == ~p.nextDisabled /\ Event(nextSlide(p))

\* a click on a thumbnail of the open thumbnail strip
ThumbnailClick ==
    /\ p.thumbsVisible
    /\ \E index \in 0..(NumSlides - 1) : Event(goToSlide(p, index))

\* goToSlide called with an arbitrary index
GoToSlideCall == \E index \in -1..NumSlides : Event(goToSlide(p, index))

\* the touchstart listener of bindEvents
TouchStart ==
    /\ pc = "page"
    /\ \E x \in TouchXs : touchStartX' = x
    /\ UNCHANGED <<pc, Catalog, p>>

TouchEnd == \E x \in TouchXs : Event(onTouchEnd(p, touchStartX, x))

\* the media element fires loadeddata: the first frame of the source being
\* loaded is available
DeliverLoadedData(s) == onloadeddata([s EXCEPT !.videoNet = "ready"])

\* the media element fires error: the source cannot be loaded or decoded
DeliverError(s) == onerror([s EXCEPT !.videoNet = "failed"])

\* the media element fires its queued ended event (pausing itself first)
DeliverEnded(s) ==
    onVideoEnded([s EXCEPT !.endedQueued = FALSE, !.videoPaused = TRUE])

VideoLoadedData ==
    /\ p.videoNet = "loading"
    /\ Event(DeliverLoadedData(p))

VideoError ==
    /\ \/ p.videoNet = "loading"
       \/ p.videoNet = "ready" /\ ~p.endedQueued
    /\ Event(DeliverError(p))

\* playback reaches the end of a source that does not loop: the element
\* queues its ended event
PlaybackEnds ==
    /\ p.videoNet = "ready" /\ ~p.videoPaused /\ ~p.videoLoop
    /\ ~p.endedQueued
    /\ Event([p EXCEPT !.endedQueued = TRUE])

VideoEnded ==
    /\ p.endedQueued
    /\ Event(DeliverEnded(p))

Next ==
    \/ Main
    \/ LoadPage
    \/ KeyDown
    \/ ImageClick
    \/ VideoClick
    \/ PrevBtnClick
    \/ NextBtnClick
    \/ ThumbnailClick
    \/ GoToSlideCall
    \/ TouchStart
    \/ TouchEnd
    \/ VideoLoadedData
    \/ VideoError
    \/ PlaybackEnds
    \/ VideoEnded

Spec == Init /\ [][Next]_vars

----------------------------------------------------------------------------
\* The two states of the player's informal state machine.

\* ShowingImage(i): image i is the one visible element, the video element is
\* hidden and paused, no video is playing
ShowingImage(s, i) ==
    /\ s.currentSlide = i
    /\ ~s.isVideoPlaying
    /\ s.videoPaused
    /\ ~s.videoActive
    /\ s.imgActive = {i}

\* PlayingVideo(i): the video element is the one visible element and the
\* playing flag is set (the video itself playing or paused by the user)
PlayingVideo(s, i) ==
    /\ s.currentSlide = i
    /\ s.isVideoPlaying
    /\ s.videoActive
    /\ s.imgActive = {}

LastSlide == NumSlides - 1

----------------------------------------------------------------------------
\* C1: with the player constructed from a non-empty catalog of N slides,
\* currentSlide is an index in 0..N-1 in every reachable state, whatever
\* events have been handled (goToSlide with any integer included).
CurrentIndexInRange ==
    pc = "page" => NumSlides >= 1 /\ p.currentSlide \in 0..LastSlide

\* a video is playing on the last of at least three slides
CurrentIndexWitness ==
    /\ pc = "page"
    /\ NumSlides >= 3
    /\ PlayingVideo(p, LastSlide)

\* C2 (as stated): a navigation request that is out of range leaves the
\* whole player state unchanged: previous at index 0, next at index N-1 and
\* goToSlide with an index outside 0..N-1, from every reachable state.
OutOfRangeIsNoOp ==
    pc = "page" =>
        /\ p.currentSlide = 0 => previousSlide(p) = p
        /\ p.currentSlide = LastSlide => nextSlide(p) = p
        /\ goToSlide(p, -1) = p
        /\ goToSlide(p, NumSlides) = p

\* C3: next below the last index yields ShowingImage(i+1) and previous above
\* the first yields ShowingImage(i-1), from every reachable state; at the
\* ends the index stays where it is (no wrap-around).
NextPreviousMoveByOne ==
    pc = "page" =>
        LET i == p.currentSlide
        IN /\ i < LastSlide => ShowingImage(nextSlide(p), i + 1)
           /\ i > 0 => ShowingImage(previousSlide(p), i - 1)
           /\ i = LastSlide => nextSlide(p).currentSlide = i
           /\ i = 0 => previousSlide(p).currentSlide = 0

\* next and previous both apply to a video playing (not paused) on a middle
\* slide
NextPreviousWitness ==
    /\ pc = "page"
    /\ PlayingVideo(p, p.currentSlide)
    /\ ~p.videoPaused
    /\ p.currentSlide > 0
    /\ p.currentSlide < LastSlide
    /\ ShowingImage(nextSlide(p), p.currentSlide + 1)
    /\ ShowingImage(previousSlide(p), p.currentSlide - 1)

\* C4 (as stated): from ShowingImage(i) with a video bound to slide i+1, the
\* primary action yields PlayingVideo(i) with playback begun.
PrimaryActionStartsPlayback ==
    pc = "page" =>
        LET i == p.currentSlide
        IN ShowingImage(p, i) /\ HasVideo(toString(i + 1)) =>
             /\ PlayingVideo(onSlideClick(p), i)
             /\ ~onSlideClick(p).videoPaused
             /\ ShowingImage(DeliverEnded(onSlideClick(p)), i)

\* the bound video is being loaded for slide i: the video element is the one
\* visible element, the playing flag is still clear and the video is paused
LoadingVideo(s, i, path) ==
    /\ s.currentSlide = i
    /\ ~s.isVideoPlaying
    /\ s.videoPaused
    /\ s.videoActive
    /\ s.imgActive = {}
    /\ s.videoSrc = path
    /\ s.videoNet = "loading"
    /\ s.loadingActive

\* C4 (amended): from ShowingImage(i) with a video bound to slide i+1, the
\* primary action leaves the index at i and starts loading the bound video
\* with the video element shown in place of the image; playback begins, and
\* the state becomes PlayingVideo(i), when the loaded event is delivered; an
\* ended event delivered in PlayingVideo(i) returns to ShowingImage(i).
PrimaryActionLoadsThenPlays ==
    pc = "page" =>
        LET i == p.currentSlide
            slideNum == toString(i + 1)
        IN /\ ShowingImage(p, i) /\ HasVideo(slideNum) =>
                /\ LoadingVideo(onSlideClick(p), i, videosData[slideNum])
                /\ PlayingVideo(DeliverLoadedData(onSlideClick(p)), i)
                /\ ~DeliverLoadedData(onSlideClick(p)).videoPaused
           /\ PlayingVideo(p, i) /\ p.endedQueued =>
                ShowingImage(DeliverEnded(p), i)

\* the video of a slide after the first has played to its end in
\* PlayingVideo(i), its ended event not yet delivered
PrimaryActionWitness ==
    /\ pc = "page"
    /\ p.currentSlide > 0
    /\ PlayingVideo(p, p.currentSlide)
    /\ p.endedQueued
    /\ p.videoSrc = videosData[toString(p.currentSlide + 1)]
    /\ ShowingImage(DeliverEnded(p), p.currentSlide)

\* C5: from ShowingImage(i) with no video bound to slide i+1 the primary
\* action does what next does: ShowingImage(i+1) below the last index, no
\* change at the last index.
PrimaryActionIsNext ==
    pc = "page" =>
        LET i == p.currentSlide
        IN ShowingImage(p, i) /\ ~HasVideo(toString(i + 1)) =>
             /\ onSlideClick(p) = nextSlide(p)
             /\ i < LastSlide => ShowingImage(onSlideClick(p), i + 1)
             /\ i = LastSlide => onSlideClick(p) = p

\* an image without a video, shown after a slide that has one
PrimaryActionIsNextWitness ==
    /\ pc = "page"
    /\ p.currentSlide > 0
    /\ p.currentSlide < LastSlide
    /\ ShowingImage(p, p.currentSlide)
    /\ ~HasVideo(toString(p.currentSlide + 1))
    /\ HasVideo(toString(p.currentSlide))
    /\ ShowingImage(onSlideClick(p), p.currentSlide + 1)

\* C6: while a video is playing (isVideoPlaying set), the primary action
\* changes nothing but the video's pause state, which it flips; a second
\* primary action restores the state.
PrimaryActionTogglesPause ==
    pc = "page" /\ p.isVideoPlaying =>
        /\ onSlideClick(p) = [p EXCEPT !.videoPaused = ~p.videoPaused]
        /\ onSlideClick(onSlideClick(p)) = p

\* PlayingVideo(i) with the video paused by the user
PrimaryActionTogglesWitness ==
    /\ pc = "page"
    /\ PlayingVideo(p, p.currentSlide)
    /\ p.videoNet = "ready"
    /\ p.videoPaused
    /\ ~onSlideClick(p).videoPaused

\* C7: goToSlide with an index in 0..N-1 yields ShowingImage(index) from
\* every reachable state; Home yields ShowingImage(0) and End
\* ShowingImage(N-1).
JumpShowsImage ==
    pc = "page" =>
        /\ \A index \in 0..LastSlide : ShowingImage(goToSlide(p, index), index)
        /\ ShowingImage(onKeyDown(p, "Home"), 0)
        /\ ShowingImage(onKeyDown(p, "End"), LastSlide)

\* a video playing on a middle slide, from which Home and End both move
JumpWitness ==
    /\ pc = "page"
    /\ p.currentSlide > 0
    /\ p.currentSlide < LastSlide
    /\ PlayingVideo(p, p.currentSlide)
    /\ ~p.videoPaused
    /\ ShowingImage(onKeyDown(p, "End"), LastSlide)

\* C8 (as stated): N.mp4 is the video of the slide showing N.png: the
\* primary action on the image N.png starts N.mp4 when that file exists, and
\* a video N.mp4 is only ever started from the image with number N.
VideoMatchesImage ==
    pc = "page" /\ ShowingImage(p, p.currentSlide) =>
        LET img == slidesData[p.currentSlide + 1]
            video == Name(img.base, "mp4")
            s1 == onSlideClick(p)
        IN /\ FileEntry(img.base, "mp4") \in files =>
                LoadingVideo(s1, p.currentSlide, video)
           /\ \A f \in files :
                /\ mp4_pattern(f.name)
                /\ LoadingVideo(s1, p.currentSlide, f.name)
                => ParseInt(f.name.base) = ParseInt(img.base)

\* whether the directory has an entry of that name
Present(n) == \E f \in files : f.name = n

\* C9 (as stated): with the cover video present, the catalog binds key "1"
\* to it, whatever else the directory holds.
CoverBound(videos) ==
    Present(CoverName) =>
        <<"1">> \in DOMAIN videos /\ videos[<<"1">>] = CoverName

CoverAlwaysBindsSlideOne == htmlWritten => CoverBound(videosData)

\* C9 (amended): with the cover video present, the catalog binds key "1" to
\* it unless the directory also holds a regular file 1.mp4, which then takes
\* key "1" in its place.
CoverOrFirstBound(videos) ==
    Present(CoverName) =>
        /\ <<"1">> \in DOMAIN videos
        /\ videos[<<"1">>] = IF FileEntry(<<"1">>, "mp4") \in files
                             THEN Name(<<"1">>, "mp4")
                             ELSE CoverName

CoverBindsSlideOneUnlessFirst ==
    /\ pc = "start" /\ dirExists =>
         \A data \in scan_slides(files) : CoverOrFirstBound(data.videos)
    /\ htmlWritten => CoverOrFirstBound(videosData)

\* the document was written for a directory with the cover video and the
\* second slide's video: key "1" is the cover video
CoverWitness ==
    /\ htmlWritten
    /\ Present(CoverName)
    /\ FileEntry(<<"2">>, "mp4") \in files
    /\ videosData[<<"1">>] = CoverName
    /\ videosData[<<"2">>] = Name(<<"2">>, "mp4")

\* the video bound to key "1"
IsFirstVideo(path) == HasVideo(<<"1">>) /\ path = videosData[<<"1">>]

\* C10: whenever the video element has a source, its loop flag is set
\* exactly when that source is the video bound to key "1"; an ended event is
\* only ever queued for another video.
LoopOnlyFirstVideo ==
    pc = "page" /\ p.videoSrc # NoVideo =>
        /\ p.videoLoop <=> IsFirstVideo(p.videoSrc)
        /\ p.endedQueued => ~IsFirstVideo(p.videoSrc)

\* the first slide's video is playing in a loop, the second slide having a
\* video of its own
LoopWitness ==
    /\ pc = "page"
    /\ PlayingVideo(p, 0)
    /\ p.videoNet = "ready"
    /\ ~p.videoPaused
    /\ p.videoLoop
    /\ IsFirstVideo(p.videoSrc)
    /\ HasVideo(<<"2">>)

\* C11: an error event of the video element leaves the player in
\* ShowingImage(i), i the index when the event is delivered, with the
\* loading indicator off and no new load started.
ErrorShowsImage ==
    pc = "page" =>
        LET s1 == DeliverError(p)
        IN /\ ShowingImage(s1, p.currentSlide)
           /\ ~s1.loadingActive
           /\ s1.videoNet = "failed"
           /\ s1.videoSrc = p.videoSrc

\* a video is being loaded for a slide after the first
ErrorWitness ==
    /\ pc = "page"
    /\ p.currentSlide > 0
    /\ LoadingVideo(p, p.currentSlide, videosData[toString(p.currentSlide + 1)])
    /\ ShowingImage(DeliverError(p), p.currentSlide)

\* whether the directory holds a regular file matching the image pattern
HasImage == \E f \in files : f.isFile /\ png_pattern(f.name)

\* C12: once main has returned, the document is written exactly when the
\* directory exists and holds a matching image; without the directory main
\* returns 1 and never calls scan_slides; without an image it returns 1 after
\* the scan and writes nothing.
DocumentIffImages ==
    pc # "start" =>
        /\ htmlWritten <=> (dirExists /\ HasImage)
        /\ ~dirExists => rc = 1 /\ ~scanCalled
        /\ dirExists /\ ~HasImage => rc = 1 /\ scanCalled
        /\ htmlWritten => rc = 0 /\ scanCalled

\* main has returned 1 for a directory that has entries, none of them an
\* image file
DocumentWitness ==
    /\ pc = "exit"
    /\ dirExists
    /\ Cardinality(files) >= 2
    /\ \E f \in files : png_pattern(f.name)
    /\ rc = 1
    /\ scanCalled
    /\ ~htmlWritten

\* the regular files of the directory that match the image pattern
ImageFiles == { f \in files : f.isFile /\ png_pattern(f.name) }

\* the image file numbered k with no leading zero
ImageName(k) == Name(toString(k), "png")

\* the directory's images are exactly 1.png .. n.png
ImagesOneTo(n) == { f.name : f \in ImageFiles } = { ImageName(k) : k \in 1..n }

\* where the slide of file name n stands in slides (0 if nowhere)
PositionOf(slides, n) ==
    IF \E k \in 1..Len(slides) : slides[k].filename = n
    THEN CHOOSE k \in 1..Len(slides) : slides[k].filename = n
    ELSE 0

SortedSlides(data) ==
    /\ data.total = Len(data.slides)
    /\ Len(data.slides) = Cardinality(ImageFiles)
    /\ \A k \in 1..(Len(data.slides) - 1) :
         data.slides[k].num <= data.slides[k + 1].num
    /\ \A n \in 0..Cardinality(files) :
         ImagesOneTo(n) =>
            /\ Len(data.slides) = n
            /\ \A k \in 1..n : /\ data.slides[k].num = k
                               /\ data.slides[k].filename = ImageName(k)
    /\ ImageName(2) \in { f.name : f \in ImageFiles }
       /\ ImageName(10) \in { f.name : f \in ImageFiles }
       => PositionOf(data.slides, ImageName(2))
            < PositionOf(data.slides, ImageName(10))

\* C13: whatever the iteration order, scan_slides returns one slide per
\* image file, in ascending numeric order, with total their number; for a
\* directory whose images are exactly 1.png .. N.png the slides are
\* 1.png, .., N.png in that order (strictly ascending, length N), and 2.png
\* stands before 10.png.
ScanSortsNumerically ==
    /\ pc = "start" /\ dirExists =>
         \A data \in scan_slides(files) : SortedSlides(data)
    /\ htmlWritten =>
         \A n \in 1..Cardinality(files) :
            ImagesOneTo(n) => slidesData = [k \in 1..n |-> ImageName(k)]

\* the document was written for 1.png, 2.png, 3.png and one more entry
ScanSortsWitness ==
    /\ htmlWritten
    /\ Cardinality(files) = 4
    /\ ImagesOneTo(3)
    /\ slidesData = <<ImageName(1), ImageName(2), ImageName(3)>>

\* s and t differ at most in the thumbnail strip and the fullscreen state
SamePlayback(s, t) ==
    t = [s EXCEPT !.showThumbnails = t.showThumbnails,
                  !.thumbsVisible = t.thumbsVisible,
                  !.fullscreen = t.fullscreen]

\* C14: the t, f and Escape keys leave the index, the playing flag, the
\* video's pause state and the visible element as they are; t flips
\* showThumbnails and nothing else but the strip's visibility, f changes
\* only the fullscreen state, and after Escape showThumbnails is false,
\* Escape changing nothing when it already was.
TogglesLeavePlayback ==
    pc = "page" =>
        /\ \A key \in {"t", "T", "f", "F", "Escape"} :
             SamePlayback(p, onKeyDown(p, key))
        /\ \A key \in {"t", "T"} :
             /\ onKeyDown(p, key).showThumbnails = ~p.showThumbnails
             /\ onKeyDown(p, key).thumbsVisible = ~p.showThumbnails
             /\ onKeyDown(p, key).fullscreen = p.fullscreen
        /\ \A key \in {"f", "F"} :
             /\ onKeyDown(p, key).showThumbnails = p.showThumbnails
             /\ onKeyDown(p, key).thumbsVisible = p.thumbsVisible
        /\ ~onKeyDown(p, "Escape").showThumbnails
        /\ ~onKeyDown(p, "Escape").thumbsVisible
        /\ onKeyDown(p, "Escape").fullscreen = p.fullscreen
        /\ ~p.showThumbnails => onKeyDown(p, "Escape") = p

\* a video is playing in fullscreen with the thumbnail strip open
TogglesWitness ==
    /\ pc = "page"
    /\ PlayingVideo(p, p.currentSlide)
    /\ ~p.videoPaused
    /\ p.showThumbnails
    /\ p.fullscreen
    /\ ~onKeyDown(p, "Escape").showThumbnails

\* the progress width progressNum / progressDen percent, in tenths of a
\* percent, rounded to the nearest
ProgressTenths(s) ==
    (2 * 10 * s.progressNum + s.progressDen) \div (2 * s.progressDen)

\* C15: in every reachable state of the player the counter shows
\* currentSlide + 1, the progress width is (currentSlide + 1) / N of 100%
\* (66.7% for N = 3 at index 1, exactly 100% at the last slide), the previous
\* button is disabled exactly at index 0, the next button exactly at index
\* N-1, and the active thumbnail is exactly the one at currentSlide.
IndicatorsFollowIndex ==
    pc = "page" =>
        /\ p.currentText = p.currentSlide + 1
        /\ p.progressDen > 0
        /\ p.progressNum * NumSlides = (p.currentSlide + 1) * 100 * p.progressDen
        /\ NumSlides = 3 /\ p.currentSlide = 1 => ProgressTenths(p) = 667
        /\ p.currentSlide = LastSlide => p.progressNum = 100 * p.progressDen
        /\ p.prevDisabled <=> p.currentSlide = 0
        /\ p.nextDisabled <=> p.currentSlide = LastSlide
        /\ p.thumbActive = {p.currentSlide}

\* a video is playing on the second of three slides, the progress at 66.7%
IndicatorsWitness ==
    /\ pc = "page"
    /\ NumSlides = 3
    /\ PlayingVideo(p, 1)
    /\ ProgressTenths(p) = 667
    /\ ~p.prevDisabled
    /\ ~p.nextDisabled

\* C16: a touch that began at touchStartX and ends at x, with
\* d = touchStartX - x, does what next does when d > 50, what previous does
\* when d < -50, and changes nothing when -50 <= d <= 50.
SwipeBeyondThreshold ==
    pc = "page" =>
        \A x \in TouchXs :
            LET d == touchStartX - x
                s1 == onTouchEnd(p, touchStartX, x)
            IN /\ d > 50 => s1 = nextSlide(p)
               /\ d < -50 => s1 = previousSlide(p)
               /\ d >= -50 /\ d <= 50 => s1 = p

\* a touch began 50 pixels from the edge while a video plays on a middle
\* slide: ending it at the edge changes nothing, ending it at the far side
\* moves back
SwipeWitness ==
    /\ pc = "page"
    /\ touchStartX = 50
    /\ p.currentSlide > 0
    /\ p.currentSlide < LastSlide
    /\ PlayingVideo(p, p.currentSlide)
    /\ onTouchEnd(p, touchStartX, 0) = p
    /\ ShowingImage(onTouchEnd(p, touchStartX, MaxX), p.currentSlide - 1)


----------------------------------------------------------------------------
\* C17: transition bindings are inert in the player.  At every state of the
\* page the primary action gives the same result whether the catalog's
\* "from-to" keys are there, are removed, or are joined by further ones, and
\* the same result again when only the key toString(currentSlide + 1) is
\* kept; the video element never holds a transition video.  No other
\* handler reads the catalog, so the player's states are the same after any
\* sequence of events.

IsTransitionKey(k) == DashAt(k) > 0

WithoutTransitions(videos) ==
    [k \in { k \in DOMAIN videos : ~IsTransitionKey(k) } |-> videos[k]]

OnlyKey(videos, key) == [k \in DOMAIN videos \cap {key} |-> videos[k]]

MoreTransitionKeys == { <<"0", "-", "1">>, <<"1", "-", "2">>,
                        <<"2", "-", "3">>, <<"3", "-", "4">> }

TransitionKeysInert ==
    pc = "page" =>
        LET s1 == onSlideClickWith(p, videosData)
        IN /\ s1 = onSlideClickWith(p, WithoutTransitions(videosData))
           /\ \A k \in MoreTransitionKeys :
                  s1 = onSlideClickWith(p, DictSet(videosData, k,
                                                  Name(k, "mp4")))
           /\ s1 = onSlideClickWith(p,
                      OnlyKey(videosData, toString(p.currentSlide + 1)))
           /\ ~IsTransitionKey(p.videoSrc.base)
           /\ ~IsTransitionKey(s1.videoSrc.base)

\* the catalog binds "1-2" and nothing to slide 1; the primary action on
\* slide 1 went on to slide 2 without touching the video element
TransitionWitness ==
    /\ pc = "page"
    /\ <<"1", "-", "2">> \in DOMAIN videosData
    /\ ~HasVideo(<<"1">>)
    /\ p.currentSlide = 1
    /\ p.videoSrc = NoVideo
    /\ p = onSlideClick(NewPlayer)



----------------------------------------------------------------------------
\* C18 (as stated): a loadeddata callback that arrives after the user has
\* navigated away does not start playback: in every reachable state,
\* isVideoPlaying implies that the video element is the visible element,
\* the image of currentSlide is hidden, and the video element holds the
\* video bound to slide currentSlide + 1.
PlayingImpliesVideoShown ==
    pc = "page" /\ p.isVideoPlaying =>
        LET slideNum == toString(p.currentSlide + 1)
        IN /\ p.videoActive
           /\ p.currentSlide \notin p.imgActive
           /\ HasVideo(slideNum)
           /\ p.videoSrc = videosData[slideNum]

\* C19 (as stated): in every reachable state in which isVideoPlaying is
\* false and no video load is pending, the image of currentSlide is the one
\* visible element and the video element is hidden.
IdleShowsImage ==
    pc = "page" /\ ~p.isVideoPlaying /\ p.videoNet # "loading" =>
        /\ p.imgActive = {p.currentSlide}
        /\ ~p.videoActive


----------------------------------------------------------------------------
\* C20: the primary action alone never advances past a slide that has a
\* video binding.  At every state of the page whose slide currentSlide + 1
\* has a binding, the primary action (a click on the image, the space key,
\* a click on the video) and the loadeddata, error and ended deliveries all
\* keep currentSlide, so no sequence of them changes it; once the video has
\* ended the image of the slide is back and the primary action loads the
\* slide's video again.

\* the states one primary action or one media event away from s
PrimaryAndMediaSteps(s) ==
    { onSlideClick(s), onKeyDown(s, " "), toggleVideo(s),
      DeliverLoadedData(s), DeliverError(s), DeliverEnded(s) }

PrimaryActionStaysOnBoundSlide ==
    LET i == p.currentSlide
        slideNum == toString(i + 1)
    IN pc = "page" /\ HasVideo(slideNum) =>
           /\ \A t \in PrimaryAndMediaSteps(p) : t.currentSlide = i
           /\ p.endedQueued =>
                  /\ ShowingImage(DeliverEnded(p), i)
                  /\ LoadingVideo(onSlideClick(DeliverEnded(p)), i,
                                  videosData[slideNum])

\* the video bound to a slide that is not the last one has played to its
\* end, the ended event about to be delivered
PrimaryActionStaysWitness ==
    /\ pc = "page"
    /\ p.currentSlide < LastSlide
    /\ HasVideo(toString(p.currentSlide + 1))
    /\ PlayingVideo(p, p.currentSlide)
    /\ p.videoSrc = videosData[toString(p.currentSlide + 1)]
    /\ p.endedQueued

====
